---- MODULE Spec2Model ----
(***************************************************************************)
(* Company-data synchronisation core of the accounting application.        *)
(*                                                                         *)
(* The repository carries two variants of the CompanyProvider context:     *)
(*   "p4"  src/unnamed/part_004  (the one App.tsx consumes: it exposes     *)
(*         selectedId)                                                     *)
(*   "p5"  src/unnamed/part_005  (the other copy of CompanyContext)        *)
(* Both are modelled; the variable `variant` says which one is mounted.    *)
(*                                                                         *)
(* part_005 lines 290-326 (selectCompany) are textually damaged: the       *)
(* onSnapshot call is repeated and its callbacks are never closed.  The    *)
(* model reads them as the single subscription they spell out: one         *)
(* onSnapshot whose callback is lines 295-319, followed by lines 321-326.  *)
(*                                                                         *)
(* isClient and isSubscribed are written by the code and read by none of   *)
(* the modelled operations; they are left out of the state.  A document    *)
(* is kept as its owner, its lastAccessed stamp and its collection fields. *)
(*                                                                         *)
(* React state updates made in one synchronous stretch of code are         *)
(* committed together, and an effect whose dependency changed runs with    *)
(* that commit: both happen inside the action that made the updates.       *)
(*                                                                         *)
(* The TransactionList component of src/unnamed/part_000 is modelled by    *)
(* its search filter and by the handler that adds a pattern to the         *)
(* category rules through updateCompanyData.                               *)
(***************************************************************************)
EXTENDS Integers, Sequences, FiniteSets, TLC

\* ---------------------------------------------------------------- bounds
MaxEvents == 2         \* Spec: operation calls and environment events per behaviour
MaxSelectEvents == 3   \* SpecSelect: the same, with selectCompany the only operation
MaxTimers == 2         \* delayed subscription callbacks pending at once (p5)
MaxHydrateEvents == 2  \* SpecHydrate: the same as MaxSelectEvents, over documents of any shape
MaxSessionEvents == 2  \* SpecSignedIn: calls and events after the user has signed in
MaxRuleEvents == 2     \* SpecRules: selections and uses of the rules modal
MaxTermLen == 3        \* SpecList: characters in the search box
MaxTxLen == 2          \* SpecList: transactions handed to the list

\* ------------------------------------------------------------ vocabulary
Variants == {"p4", "p5"}
IdOrder == <<"a", "b">>   \* document ids, in the order a query lists them
CompanyIds == {IdOrder[i] : i \in 1..Len(IdOrder)}
NoId == "none"         \* selectedId === null, and the id argument ''
NoUser == "nouser"
UserId == "u1"
NoSub == 0
NoError == "null"

\* A field of a remote document: absent, present but not an array, or an array.
Missing == [kind |-> "missing", items |-> <<>>]
NonArray == [kind |-> "nonarray", items |-> <<>>]
Arr(s) == [kind |-> "array", items |-> s]
IsArray(v) == v.kind = "array"

\* Chart-of-account records are named by their id; accountNumber is the
\* field the code tests.
defaultUncategorizedAccount == "uncategorized-default"
CashAccount == "acc-1000"
accountNumber(acc) == IF acc = defaultUncategorizedAccount THEN "00000" ELSE "1000"

\* The collections of CompanyData; a name with a dot is a collection inside
\* the payroll or workManagement object.
DataFields == {"transactions", "accounts", "categoryRules", "customers",
               "vendors", "invoices", "bankAccounts",
               "payroll.employees", "payroll.contractors", "payroll.payrollRuns",
               "workManagement.tasks", "workManagement.documents"}

\* The top-level field of the document that holds collection f.
TopLevel(f) ==
  IF f \in {"payroll.employees", "payroll.contractors", "payroll.payrollRuns"}
    THEN "payroll"
  ELSE IF f \in {"workManagement.tasks", "workManagement.documents"}
    THEN "workManagement"
  ELSE f

initialCompanyData ==
  [f \in DataFields |-> IF f = "accounts" THEN <<defaultUncategorizedAccount>> ELSE <<>>]

\* accounts.some(acc => acc.accountNumber === '00000')
hasUncategorized(s) == \E i \in 1..Len(s) : accountNumber(s[i]) = "00000"

CountUncategorized(s) == Cardinality({i \in 1..Len(s) : accountNumber(s[i]) = "00000"})

\* arrayOrEmpty with the fallback of the accounts line copied to the others.
arrayOrDefaultAccount(v) ==
  IF IsArray(v) THEN v.items ELSE <<defaultUncategorizedAccount>>

\* Array.isArray(x) ? x : []
arrayOrEmpty(v) == IF IsArray(v) THEN v.items ELSE <<>>

\* part_004: the accounts field of the subscription callback and of selectCompany;
\* part_005: the accounts field of the subscription opened in selectCompany.
accountsPlain(v) == IF IsArray(v) THEN v.items ELSE <<defaultUncategorizedAccount>>

\* part_005: the accounts field of the effect's subscription callback.
accountsRepaired(v) ==
  IF IsArray(v)
    THEN IF hasUncategorized(v.items) THEN v.items
         ELSE <<defaultUncategorizedAccount>> \o v.items
    ELSE <<defaultUncategorizedAccount>>

\* The object literal built from doc.data() without the repair of accounts.
normalizePlain(d) ==
  [f \in DataFields |-> IF f = "accounts" THEN accountsPlain(d[f]) ELSE arrayOrEmpty(d[f])]

\* finalData of part_005's effect subscription.
normalizeRepaired(d) ==
  [f \in DataFields |-> IF f = "accounts" THEN accountsRepaired(d[f]) ELSE arrayOrEmpty(d[f])]

\* ------------------------------------------------------- remote documents
NoFields == [f \in DataFields |-> Missing]

NoDoc == [exists |-> FALSE, userId |-> NoUser, lastAccessed |-> 0, f |-> NoFields]

\* The document addCompany writes: {...newCompany, ...initialCompanyData}
newCompanyDoc(uid, now) ==
  [exists |-> TRUE, userId |-> uid, lastAccessed |-> now,
   f |-> [f \in DataFields |-> Arr(initialCompanyData[f])]]

\* ---------------------------------------------------------------- inputs
\* Payloads of updateCompanyData (Partial<CompanyData>: a field is an array or absent).
Payload(acc, tx, bank) ==
  [f \in DataFields |-> IF f = "accounts" THEN acc
                        ELSE IF f = "transactions" THEN tx
                        ELSE IF f = "bankAccounts" THEN bank ELSE Missing]

UpdatePayloads ==
  { Payload(Arr(<<CashAccount>>), Missing, Missing),
    Payload(Arr(<<CashAccount, defaultUncategorizedAccount>>), Missing, Missing),
    Payload(Missing, Arr(<<"t1">>), Arr(<<"bk1">>)) }

\* Payloads of updateCompanyInfo (Partial<Company>).
InfoPayloads == { Payload(Missing, Missing, Arr(<<"bk2">>)) }

\* What another client may leave in a field of a document.
RemoteValues(f) ==
  IF f = "accounts" THEN {Missing, NonArray, Arr(<<CashAccount>>)}
  ELSE IF f = "transactions" THEN {Missing, NonArray, Arr(<<"t2">>)}
  ELSE {Missing}

RemoteFields == {"accounts", "transactions", "bankAccounts"}

\* What the user may have chosen in the rules modal: nothing, or a category
\* and a text selected from a description.
RuleCategories == {"", "Meals", "Travel"}
RuleTexts == {"", "Coffee", "coffee"}

\* Category rules an earlier session has stored.
StoredRules ==
  { <<>>,
    <<[id |-> -2, category |-> "Meals", patterns |-> <<"Coffee">>]>>,
    <<[id |-> -2, category |-> "Meals", patterns |-> <<"Lunch", "coffee">>],
      [id |-> -1, category |-> "Travel", patterns |-> <<"Taxi">>]>> }

\* ----------------------------------------------------------------- state
VARIABLES
  variant,                 \* which CompanyContext is mounted
  user,                    \* useAuth().user
  docs,                    \* the remote collection 'companies'
  companies, selectedId, companyData, isOffline, loading, error,
  unsubscribeCompanyData,  \* the handle kept in React state
  network,                 \* Firestore transport enabled
  subs,                    \* active document listeners
  effectSub,               \* the listener the data effect's cleanup closes over
  nextSub,                 \* next fresh listener handle
  compSub,                 \* the companies-query listener
  timers,                  \* p5: callbacks waiting in setTimeout(100)
  ops,                     \* async operations suspended at an await
  events,                  \* operation calls and environment events so far
  limit,                   \* how many of them the behaviour may hold
  last,                    \* how the call that returned in this step ended
  allTransactions,         \* TransactionList: the transactions prop
  searchTerm,              \* TransactionList: the text of the search box
  filteredTransactions     \* TransactionList: the rows it renders

\* the state of the transaction list
listVars == <<allTransactions, searchTerm, filteredTransactions>>

vars == <<variant, user, docs, companies, selectedId, companyData, isOffline,
          loading, error, unsubscribeCompanyData, network, subs, effectSub,
          nextSub, compSub, timers, ops, events, limit, last, listVars>>

\* kind: the operation; id: the company it was about; rejected/err: whether the
\* promise rejected and with what; at: the await it was suspended at;
\* persisted: whether it wrote the remote document; overlap: whether another
\* selectCompany call ran while it was suspended.
NoLast == [kind |-> "none", id |-> NoId, rejected |-> FALSE, err |-> "none",
           at |-> "none", persisted |-> FALSE, overlap |-> FALSE]

Returned(kind, id, persisted, overlap) ==
  [kind |-> kind, id |-> id, rejected |-> FALSE, err |-> "none", at |-> "none",
   persisted |-> persisted, overlap |-> overlap]

Rejected(kind, id, err, at, overlap) ==
  [kind |-> kind, id |-> id, rejected |-> TRUE, err |-> err, at |-> at,
   persisted |-> FALSE, overlap |-> overlap]

Op(n, kind, pc, id, data, overlap) ==
  [n |-> n, kind |-> kind, pc |-> pc, id |-> id, data |-> data, cur |-> NoDoc,
   overlap |-> overlap]

Sub(h, c, origin) == [h |-> h, company |-> c, origin |-> origin, pending |-> TRUE]

\* calling an unsubscribe function: idempotent, a no-op on a closed listener
Cancel(sbs, h) == {s \in sbs : s.h # h}

\* a write to document c schedules a snapshot for every listener on it
TouchSubs(sbs, c) ==
  {IF s.company = c THEN [s EXCEPT !.pending = TRUE] ELSE s : s \in sbs}

TouchComp(cs, uid) ==
  IF cs.active /\ uid = user THEN [cs EXCEPT !.pending = TRUE] ELSE cs

\* The provider once mounted with nobody signed in: the mount run of the
\* companies effect and of the data effect has brought loading from its
\* initial true to false.
InitState ==
  /\ variant \in Variants
  /\ user = NoUser
  /\ docs = [c \in CompanyIds |-> IF c = "a" THEN newCompanyDoc(UserId, 0) ELSE NoDoc]
  /\ companies = <<>>
  /\ selectedId = NoId
  /\ companyData = initialCompanyData
  /\ isOffline = FALSE
  /\ loading = FALSE
  /\ error = NoError
  /\ unsubscribeCompanyData = NoSub
  /\ network = TRUE
  /\ subs = {}
  /\ effectSub = NoSub
  /\ nextSub = 1
  /\ compSub = [active |-> FALSE, pending |-> FALSE]
  /\ timers = <<>>
  /\ ops = {}
  /\ events = 0
  /\ last = NoLast

\* No transaction list is mounted.
ListIdle == allTransactions = <<>> /\ searchTerm = <<>> /\ filteredTransactions = <<>>

\* --------------------------------------------- company data subscription
\* The effect with dependency [selectedId], run with the commit that brings
\* selectedId to sel; data, ld, unsub, sbs are the values the same commit
\* gives companyData, loading, unsubscribeCompanyData and the listeners, ns
\* is the next fresh handle.
DataEffect(sel, data, ld, unsub, sbs, ns) ==
  IF sel = selectedId
    THEN [companyData |-> data, loading |-> ld, unsubscribeCompanyData |-> unsub,
          subs |-> sbs, effectSub |-> effectSub, nextSub |-> ns]
    ELSE LET closed == Cancel(Cancel(sbs, effectSub), unsub) IN
         IF sel = NoId
           THEN [companyData |-> initialCompanyData, loading |-> FALSE,
                 unsubscribeCompanyData |-> unsub, subs |-> closed,
                 effectSub |-> NoSub, nextSub |-> ns]
           ELSE [companyData |-> data, loading |-> ld,
                 unsubscribeCompanyData |-> ns,
                 subs |-> closed \cup {Sub(ns, sel, "effect")},
                 effectSub |-> ns, nextSub |-> ns + 1]

Commit(sel, data, ld, unsub, sbs, ns) ==
  LET r == DataEffect(sel, data, ld, unsub, sbs, ns) IN
  /\ selectedId' = sel
  /\ companyData' = r.companyData
  /\ loading' = r.loading
  /\ unsubscribeCompanyData' = r.unsubscribeCompanyData
  /\ subs' = r.subs
  /\ effectSub' = r.effectSub
  /\ nextSub' = r.nextSub

Now == events      \* new Date(): a clock that the calls advance

InFlight(kind, pc) == {o \in ops : o.kind = kind /\ o.pc = pc}

SelectsInFlight == {o \in ops : o.kind = "selectCompany"}

\* every selectCompany call still suspended has now met another one
MarkOverlap(os) ==
  {IF o.kind = "selectCompany" THEN [o EXCEPT !.overlap = TRUE] ELSE o : o \in os}

\* ------------------------------------------------------------ environment
\* useAuth() delivers a user: the companies effect subscribes to the query.
SignIn ==
  /\ events < limit
  /\ events' = events + 1
  /\ user = NoUser
  /\ user' = UserId
  /\ loading' = TRUE
  /\ compSub' = [active |-> TRUE, pending |-> TRUE]
  /\ last' = NoLast
  /\ UNCHANGED <<listVars, variant, docs, companies, selectedId, companyData, isOffline, error,
                 unsubscribeCompanyData, network, subs, effectSub, nextSub, timers,
                 ops, limit>>

\* SignOut with the reset of the selection left out.
SignOutKeepsSelection ==
  /\ events < limit
  /\ events' = events + 1
  /\ user # NoUser
  /\ user' = NoUser
  /\ compSub' = [active |-> FALSE, pending |-> FALSE]
  /\ companies' = <<>>
  /\ companyData' = initialCompanyData
  /\ loading' = FALSE
  /\ last' = NoLast
  /\ UNCHANGED <<listVars, variant, docs, selectedId, isOffline, error, unsubscribeCompanyData,
                 network, subs, effectSub, nextSub, timers, ops, limit>>

\* The user becomes null: the companies effect cleans up and resets the state.
SignOut ==
  /\ events < limit
  /\ events' = events + 1
  /\ user # NoUser
  /\ user' = NoUser
  /\ compSub' = [active |-> FALSE, pending |-> FALSE]
  /\ companies' = <<>>
  /\ Commit(NoId, initialCompanyData, FALSE, unsubscribeCompanyData, subs, nextSub)
  /\ last' = NoLast
  /\ UNCHANGED <<listVars, variant, docs, isOffline, error, network, timers, ops, limit>>

\* p5 lists isOffline among the dependencies of the companies effect: a change
\* of the flag runs the effect again (lines 124-157).
CompaniesEffectOnFlag ==
  IF variant = "p5"
    THEN IF user = NoUser
           THEN /\ companies' = <<>>
                /\ compSub' = compSub
                /\ Commit(NoId, initialCompanyData, FALSE, unsubscribeCompanyData,
                          subs, nextSub)
           ELSE /\ companies' = companies
                /\ compSub' = [active |-> TRUE, pending |-> TRUE]
                /\ loading' = TRUE
                /\ UNCHANGED <<selectedId, companyData, unsubscribeCompanyData, subs,
                               effectSub, nextSub>>
    ELSE UNCHANGED <<companies, compSub, selectedId, companyData, loading,
                     unsubscribeCompanyData, subs, effectSub, nextSub>>

\* window 'online' event; ok says whether enableNetwork(db) succeeded.
handleOnline(ok) ==
  /\ events < limit
  /\ events' = events + 1
  /\ isOffline
  /\ isOffline' = FALSE
  /\ network' = IF ok THEN TRUE ELSE network
  /\ CompaniesEffectOnFlag
  /\ last' = NoLast
  /\ UNCHANGED <<listVars, variant, user, docs, error, timers, ops, limit>>

\* handleOffline whose catch block takes the flag back when
\* disableNetwork(db) fails.
handleOfflineReverts(ok) ==
  /\ events < limit
  /\ events' = events + 1
  /\ ~isOffline
  /\ isOffline' = ok
  /\ network' = IF ok THEN FALSE ELSE network
  /\ IF ok THEN CompaniesEffectOnFlag
           ELSE UNCHANGED <<companies, compSub, selectedId, companyData, loading,
                            unsubscribeCompanyData, subs, effectSub, nextSub>>
  /\ last' = NoLast
  /\ UNCHANGED <<listVars, variant, user, docs, error, timers, ops, limit>>

\* window 'offline' event; ok says whether disableNetwork(db) succeeded.
handleOffline(ok) ==
  /\ events < limit
  /\ events' = events + 1
  /\ ~isOffline
  /\ isOffline' = TRUE
  /\ network' = IF ok THEN FALSE ELSE network
  /\ CompaniesEffectOnFlag
  /\ last' = NoLast
  /\ UNCHANGED <<listVars, variant, user, docs, error, timers, ops, limit>>

\* Another client writes field f of document c.
RemoteChange(c, f, v) ==
  /\ events < limit
  /\ docs[c].exists
  /\ docs[c].f[f] # v
  /\ docs' = [docs EXCEPT ![c].f[f] = v]
  /\ events' = events + 1
  /\ subs' = TouchSubs(subs, c)
  /\ compSub' = TouchComp(compSub, docs[c].userId)
  /\ last' = NoLast
  /\ UNCHANGED <<listVars, variant, user, companies, selectedId, companyData, isOffline,
                 loading, error, unsubscribeCompanyData, network, effectSub, nextSub,
                 timers, ops, limit>>

\* ------------------------------------------------- companies subscription
\* the ids of the documents the query where('userId','==',uid) matches
QueryResult(uid) ==
  LET Matches(c) == docs[c].exists /\ docs[c].userId = uid
  IN SelectSeq(IdOrder, Matches)

\* onSnapshot(q, next): lines 147-155 (p4), 138-145 (p5)
CompaniesNotify ==
  /\ compSub.active /\ compSub.pending
  /\ companies' = QueryResult(user)
  /\ loading' = FALSE
  /\ compSub' = [compSub EXCEPT !.pending = FALSE]
  /\ last' = NoLast
  /\ UNCHANGED <<listVars, variant, user, docs, selectedId, companyData, isOffline, error,
                 unsubscribeCompanyData, network, subs, effectSub, nextSub, timers,
                 ops, events, limit>>

\* onSnapshot(q, next, error): lines 156-161 (p4), 146-153 (p5).  The listener
\* ends with the error.
CompaniesError ==
  /\ events < limit
  /\ events' = events + 1
  /\ compSub.active
  /\ error' = "Failed to load companies"
  /\ loading' = FALSE
  /\ companies' = IF variant = "p4" \/ ~isOffline THEN <<>> ELSE companies
  /\ compSub' = [active |-> FALSE, pending |-> FALSE]
  /\ last' = NoLast
  /\ UNCHANGED <<listVars, variant, user, docs, selectedId, companyData, isOffline,
                 unsubscribeCompanyData, network, subs, effectSub, nextSub, timers,
                 ops, limit>>

\* -------------------------------------------- company document listeners
\* Does the callback of listener s wait in setTimeout before it applies?
Delayed(s) == variant = "p5" /\ s.origin = "effect"

\* DataNotify with the snapshot merged over the previous local data: a
\* collection the document lacks keeps its local value.
DataNotifyMerging(s) ==
  /\ s \in subs /\ s.pending
  /\ subs' = (subs \ {s}) \cup {[s EXCEPT !.pending = FALSE]}
  /\ IF ~docs[s.company].exists
       THEN UNCHANGED <<companyData, timers>>
       ELSE IF Delayed(s)
         THEN /\ Len(timers) < MaxTimers
              /\ timers' = Append(timers, [company |-> s.company, data |-> docs[s.company].f])
              /\ UNCHANGED companyData
         ELSE /\ companyData' = [f \in DataFields |->
                     IF IsArray(docs[s.company].f[f]) THEN docs[s.company].f[f].items
                     ELSE companyData[f]]
              /\ UNCHANGED timers
  /\ last' = NoLast
  /\ UNCHANGED <<listVars, variant, user, docs, companies, selectedId, isOffline, loading,
                 error, unsubscribeCompanyData, network, effectSub, nextSub, compSub,
                 ops, events, limit>>

\* A snapshot of the document reaches listener s.
DataNotify(s) ==
  /\ s \in subs /\ s.pending
  /\ subs' = (subs \ {s}) \cup {[s EXCEPT !.pending = FALSE]}
  /\ IF ~docs[s.company].exists
       THEN UNCHANGED <<companyData, timers>>
       ELSE IF Delayed(s)
         THEN /\ Len(timers) < MaxTimers
              /\ timers' = Append(timers, [company |-> s.company, data |-> docs[s.company].f])
              /\ UNCHANGED companyData
         ELSE /\ companyData' = normalizePlain(docs[s.company].f)
              /\ UNCHANGED timers
  /\ last' = NoLast
  /\ UNCHANGED <<listVars, variant, user, docs, companies, selectedId, isOffline, loading,
                 error, unsubscribeCompanyData, network, effectSub, nextSub, compSub,
                 ops, events, limit>>

\* p5 lines 179-212: the timeout of a callback expires and it applies finalData.
TimerFire ==
  /\ timers # <<>>
  /\ companyData' = normalizeRepaired(Head(timers).data)
  /\ error' = NoError
  /\ loading' = FALSE
  /\ timers' = Tail(timers)
  /\ last' = NoLast
  /\ UNCHANGED <<listVars, variant, user, docs, companies, selectedId, isOffline,
                 unsubscribeCompanyData, network, subs, effectSub, nextSub, compSub,
                 ops, events, limit>>

\* The backend ends listener s with an error.  Only p5's effect passes an
\* error callback (lines 215-220).
DataError(s) ==
  /\ events < limit
  /\ events' = events + 1
  /\ s \in subs
  /\ subs' = subs \ {s}
  /\ IF Delayed(s)
       THEN /\ error' = "Failed to load company data"
            /\ companyData' = initialCompanyData
            /\ loading' = FALSE
       ELSE UNCHANGED <<error, companyData, loading>>
  /\ last' = NoLast
  /\ UNCHANGED <<listVars, variant, user, docs, companies, selectedId, isOffline,
                 unsubscribeCompanyData, network, effectSub, nextSub, compSub, timers,
                 ops, limit>>

\* ------------------------------------------------------------- addCompany
\* lines 214-217 (p4), 228-231 (p5): no user, the call returns undefined
addCompanyNoUser ==
  /\ events < limit
  /\ events' = events + 1
  /\ user = NoUser
  /\ error' = "User not authenticated"
  /\ last' = Returned("addCompany", NoId, FALSE, FALSE)
  /\ UNCHANGED <<listVars, variant, user, docs, companies, selectedId, companyData, isOffline,
                 loading, unsubscribeCompanyData, network, subs, effectSub, nextSub,
                 compSub, timers, ops, limit>>

\* up to await setDoc; c is the identifier slug-uuid, which no document has
addCompanyCall(c) ==
  /\ user # NoUser
  /\ events < limit
  /\ ~docs[c].exists
  /\ \A o \in ops : ~(o.kind = "addCompany" /\ o.id = c)
  /\ loading' = TRUE
  /\ error' = NoError
  /\ ops' = ops \cup {Op(events + 1, "addCompany", "setDoc", c, NoFields, FALSE)}
  /\ events' = events + 1
  /\ last' = NoLast
  /\ UNCHANGED <<listVars, variant, user, docs, companies, selectedId, companyData, isOffline,
                 unsubscribeCompanyData, network, subs, effectSub, nextSub, compSub,
                 timers, limit>>

\* setDoc takes effect: the document is stored and the listeners it concerns
\* are notified, while the call still awaits the promise
addCompanyStored(o) ==
  /\ o \in InFlight("addCompany", "setDoc")
  /\ docs' = [docs EXCEPT ![o.id] = newCompanyDoc(UserId, Now)]
  /\ compSub' = TouchComp(compSub, UserId)
  /\ subs' = TouchSubs(subs, o.id)
  /\ ops' = (ops \ {o}) \cup {[o EXCEPT !.pc = "stored"]}
  /\ last' = NoLast
  /\ UNCHANGED <<listVars, variant, user, companies, selectedId, companyData, isOffline, loading,
                 error, unsubscribeCompanyData, network, effectSub, nextSub, timers,
                 events, limit>>

\* addCompanyDone without the append to the local list.
addCompanyDoneNoAppend(o, ok) ==
  /\ o \in InFlight("addCompany", IF ok THEN "stored" ELSE "setDoc")
  /\ ops' = ops \ {o}
  /\ loading' = FALSE
  /\ IF ok
       THEN /\ companies' = companies
            /\ last' = Returned("addCompany", o.id, TRUE, FALSE)
            /\ UNCHANGED error
       ELSE /\ error' = "Failed to add company"
            /\ last' = Rejected("addCompany", o.id, "TransportFailure", o.pc, FALSE)
            /\ UNCHANGED companies
  /\ UNCHANGED <<listVars, variant, user, docs, selectedId, companyData, isOffline,
                 unsubscribeCompanyData, network, subs, effectSub, nextSub, compSub,
                 timers, events, limit>>

\* the promise of setDoc settles: fulfilled once the document is stored (the
\* new company is appended to the local list), rejected when it was not
addCompanyDone(o, ok) ==
  /\ o \in InFlight("addCompany", IF ok THEN "stored" ELSE "setDoc")
  /\ ops' = ops \ {o}
  /\ loading' = FALSE
  /\ IF ok
       THEN /\ companies' = Append(companies, o.id)
            /\ last' = Returned("addCompany", o.id, TRUE, FALSE)
            /\ UNCHANGED error
       ELSE /\ error' = "Failed to add company"
            /\ last' = Rejected("addCompany", o.id, "TransportFailure", o.pc, FALSE)
            /\ UNCHANGED companies
  /\ UNCHANGED <<listVars, variant, user, docs, selectedId, companyData, isOffline,
                 unsubscribeCompanyData, network, subs, effectSub, nextSub, compSub,
                 timers, events, limit>>

\* ---------------------------------------------------- selectCompany (p4)
\* lines 255-261: selectCompany('')
selectCompanyClear4 ==
  /\ variant = "p4"
  /\ error' = NoError
  /\ Commit(NoId, initialCompanyData, FALSE, unsubscribeCompanyData, subs, nextSub)
  /\ ops' = MarkOverlap(ops)
  /\ last' = Returned("selectCompany", NoId, FALSE, SelectsInFlight # {})
  /\ UNCHANGED <<listVars, variant, user, docs, companies, isOffline, network, compSub, timers,
                 events, limit>>

\* lines 250-264: up to await getDoc
selectCompanyCall4(c) ==
  /\ variant = "p4"
  /\ events < limit
  /\ loading' = TRUE
  /\ error' = NoError
  /\ ops' = MarkOverlap(ops) \cup
            {Op(events + 1, "selectCompany", "getDoc", c, NoFields, SelectsInFlight # {})}
  /\ events' = events + 1
  /\ last' = NoLast
  /\ UNCHANGED <<listVars, variant, user, docs, companies, selectedId, companyData, isOffline,
                 unsubscribeCompanyData, network, subs, effectSub, nextSub, compSub,
                 timers, limit>>

\* lines 315-324: the catch and finally blocks
selectCompanyCatch4(o, err) ==
  /\ ops' = ops \ {o}
  /\ error' = "Failed to select company"
  /\ Commit(NoId, initialCompanyData, FALSE, unsubscribeCompanyData, subs, nextSub)
  /\ last' = Rejected("selectCompany", o.id, err, o.pc, o.overlap)
  /\ UNCHANGED <<listVars, variant, user, docs, companies, isOffline, network, compSub, timers,
                 events, limit>>

\* lines 264-275: getDoc settles
selectCompanyRead4(o, ok) ==
  /\ variant = "p4"
  /\ o \in InFlight("selectCompany", "getDoc")
  /\ IF ~ok THEN selectCompanyCatch4(o, "TransportFailure")
     ELSE IF ~docs[o.id].exists THEN selectCompanyCatch4(o, "NotFound")
     ELSE /\ ops' = (ops \ {o}) \cup {[o EXCEPT !.pc = "updateDoc", !.cur = docs[o.id]]}
          /\ last' = NoLast
          /\ UNCHANGED <<listVars, variant, user, docs, companies, selectedId, companyData, isOffline,
                 loading, error, unsubscribeCompanyData, network, subs, effectSub,
                 nextSub, compSub, timers, events, limit>>

\* lines 273-324: updateDoc({lastAccessed}) settles, the state is set
selectCompanyTouch4(o, ok) ==
  /\ variant = "p4"
  /\ o \in InFlight("selectCompany", "updateDoc")
  /\ IF ~ok THEN selectCompanyCatch4(o, "TransportFailure")
     ELSE /\ docs' = [docs EXCEPT ![o.id].lastAccessed = Now]
          /\ compSub' = TouchComp(compSub, docs[o.id].userId)
          /\ ops' = ops \ {o}
          /\ Commit(o.id, normalizePlain(o.cur.f), FALSE, unsubscribeCompanyData,
                    TouchSubs(subs, o.id), nextSub)
          /\ last' = Returned("selectCompany", o.id, TRUE, o.overlap)
          /\ UNCHANGED <<listVars, variant, user, companies, isOffline, error, network, timers, events,
                 limit>>

\* ---------------------------------------------------- selectCompany (p5)
\* lines 264-284: cleanup of the old listener, reset, then return ('') or
\* await getDoc
selectCompanyCall5(id) ==
  /\ variant = "p5"
  /\ id # NoId => events < limit
  /\ error' = NoError
  /\ Commit(NoId, initialCompanyData, id # NoId, unsubscribeCompanyData,
            Cancel(subs, unsubscribeCompanyData), nextSub)
  /\ IF id = NoId
       THEN /\ ops' = MarkOverlap(ops)
            /\ last' = Returned("selectCompany", NoId, FALSE, SelectsInFlight # {})
            /\ UNCHANGED events
       ELSE /\ ops' = MarkOverlap(ops) \cup
                      {Op(events + 1, "selectCompany", "getDoc", id, NoFields,
                          SelectsInFlight # {})}
            /\ events' = events + 1
            /\ last' = NoLast
  /\ UNCHANGED <<listVars, variant, user, docs, companies, isOffline, network, compSub, timers,
                 limit>>

\* lines 328-334: the catch and finally blocks
selectCompanyCatch5(o, err) ==
  /\ ops' = ops \ {o}
  /\ error' = "Failed to select company"
  /\ loading' = FALSE
  /\ last' = Rejected("selectCompany", o.id, err, o.pc, o.overlap)
  /\ UNCHANGED <<listVars, variant, user, docs, companies, selectedId, companyData, isOffline,
                 unsubscribeCompanyData, network, subs, effectSub, nextSub, compSub,
                 timers, events, limit>>

\* lines 284-324: getDoc settles; the listener is opened, the handle and the
\* selection are set, updateDoc is awaited
selectCompanyRead5(o, ok) ==
  /\ variant = "p5"
  /\ o \in InFlight("selectCompany", "getDoc")
  /\ IF ~ok THEN selectCompanyCatch5(o, "TransportFailure")
     ELSE IF ~docs[o.id].exists THEN selectCompanyCatch5(o, "NotFound")
     ELSE /\ ops' = (ops \ {o}) \cup {[o EXCEPT !.pc = "updateDoc"]}
          /\ Commit(o.id, companyData, loading, nextSub,
                    subs \cup {Sub(nextSub, o.id, "select")}, nextSub + 1)
          /\ last' = NoLast
          /\ UNCHANGED <<listVars, variant, user, docs, companies, isOffline, error, network, compSub,
                 timers, events, limit>>

\* lines 324-334: updateDoc({lastAccessed}) settles
selectCompanyTouch5(o, ok) ==
  /\ variant = "p5"
  /\ o \in InFlight("selectCompany", "updateDoc")
  /\ IF ~ok THEN selectCompanyCatch5(o, "TransportFailure")
     ELSE /\ docs' = [docs EXCEPT ![o.id].lastAccessed = Now]
          /\ compSub' = TouchComp(compSub, docs[o.id].userId)
          /\ subs' = TouchSubs(subs, o.id)
          /\ ops' = ops \ {o}
          /\ loading' = FALSE
          /\ last' = Returned("selectCompany", o.id, TRUE, o.overlap)
          /\ UNCHANGED <<listVars, variant, user, companies, selectedId, companyData, isOffline, error,
                 unsubscribeCompanyData, network, effectSub, nextSub, timers, events,
                 limit>>

\* ------------------------------------------------------ updateCompanyData
\* data.id || selectedId
TargetId(pid) == IF pid # NoId THEN pid ELSE selectedId

\* lines 328-332 (p4), 338-342 (p5): no company id, the call returns undefined
updateCompanyDataNoCompany ==
  /\ events < limit
  /\ events' = events + 1
  /\ selectedId = NoId
  /\ error' = "No company selected"
  /\ last' = Returned("updateCompanyData", NoId, FALSE, FALSE)
  /\ UNCHANGED <<listVars, variant, user, docs, companies, selectedId, companyData, isOffline,
                 loading, unsubscribeCompanyData, network, subs, effectSub, nextSub,
                 compSub, timers, ops, limit>>

\* up to await getDoc
updateCompanyDataCall(pid, data) ==
  /\ TargetId(pid) # NoId
  /\ events < limit
  /\ loading' = TRUE
  /\ error' = NoError
  /\ ops' = ops \cup {Op(events + 1, "updateCompanyData", "getDoc", TargetId(pid),
                         data, FALSE)}
  /\ events' = events + 1
  /\ last' = NoLast
  /\ UNCHANGED <<listVars, variant, user, docs, companies, selectedId, companyData, isOffline,
                 unsubscribeCompanyData, network, subs, effectSub, nextSub, compSub,
                 timers, limit>>

\* updateCatch without its finally block: the flag is left as it was.
updateCatchKeepsLoading(o, message) ==
  /\ ops' = ops \ {o}
  /\ error' = message
  /\ last' = Rejected(o.kind, o.id, "TransportFailure", o.pc, FALSE)
  /\ UNCHANGED <<listVars, variant, user, docs, companies, selectedId, companyData, isOffline,
                 loading, unsubscribeCompanyData, network, subs, effectSub, nextSub,
                 compSub, timers, events, limit>>

\* updateCatch that only rethrows: the shared error field is not set.
updateCatchSilent(o, message) ==
  /\ ops' = ops \ {o}
  /\ loading' = FALSE
  /\ last' = Rejected(o.kind, o.id, "TransportFailure", o.pc, FALSE)
  /\ UNCHANGED <<listVars, variant, user, docs, companies, selectedId, companyData, isOffline,
                 error, unsubscribeCompanyData, network, subs, effectSub, nextSub,
                 compSub, timers, events, limit>>

\* lines 366-372 (p4), 376-382 (p5): the catch and finally blocks of the
\* update operations
updateCatch(o, message) ==
  /\ ops' = ops \ {o}
  /\ error' = message
  /\ loading' = FALSE
  /\ last' = Rejected(o.kind, o.id, "TransportFailure", o.pc, FALSE)
  /\ UNCHANGED <<listVars, variant, user, docs, companies, selectedId, companyData, isOffline,
                 unsubscribeCompanyData, network, subs, effectSub, nextSub, compSub,
                 timers, events, limit>>

\* getDoc settles (lines 338-340 of p4, 348-350 of p5); a missing document
\* skips the if and the call returns
updateCompanyDataRead(o, ok) ==
  /\ o \in InFlight("updateCompanyData", "getDoc")
  /\ IF ~ok THEN updateCatch(o, "Failed to update company data")
     ELSE IF ~docs[o.id].exists
       THEN /\ ops' = ops \ {o}
            /\ loading' = FALSE
            /\ last' = Returned("updateCompanyData", o.id, FALSE, FALSE)
            /\ UNCHANGED <<listVars, variant, user, docs, companies, selectedId, companyData, isOffline,
                 error, unsubscribeCompanyData, network, subs, effectSub, nextSub,
                 compSub, timers, events, limit>>
       ELSE /\ ops' = (ops \ {o}) \cup {[o EXCEPT !.pc = "updateDoc", !.cur = docs[o.id]]}
            /\ last' = NoLast
            /\ UNCHANGED <<listVars, variant, user, docs, companies, selectedId, companyData, isOffline,
                 loading, error, unsubscribeCompanyData, network, subs, effectSub,
                 nextSub, compSub, timers, events, limit>>

\* lines 344-350 (p4), 354-360 (p5)
updatedAccounts(acc) ==
  IF IsArray(acc) /\ ~hasUncategorized(acc.items)
    THEN Arr(<<defaultUncategorizedAccount>> \o acc.items)
    ELSE acc

\* dataToUpdate with the payload's arrays appended to the stored ones.
dataToUpdateConcat(cur, data) ==
  [f \in DataFields |->
     IF IsArray(data[f])
       THEN Arr(arrayOrEmpty(cur[f]) \o data[f].items)
       ELSE IF f = "bankAccounts" /\ cur[f] = Missing THEN Arr(<<>>) ELSE cur[f]]

\* lines 353-363 (p4), 363-373 (p5): the fields of dataToUpdate
dataToUpdate(cur, data) ==
  [f \in DataFields |->
     IF f = "accounts"
       THEN IF updatedAccounts(data[f]) # Missing THEN updatedAccounts(data[f]) ELSE cur[f]
     ELSE IF f = "bankAccounts"
       THEN IF IsArray(data[f]) THEN data[f]
            ELSE IF cur[f] # Missing THEN cur[f] ELSE Arr(<<>>)
     ELSE IF data[f] # Missing THEN data[f] ELSE cur[f]]

\* updateDoc(ref, fields): the named top-level fields are overwritten whole
\* (an object field with all that it holds), the others kept
applyUpdate(d, fields) ==
  LET Named(f) == \E g \in DataFields : TopLevel(g) = TopLevel(f) /\ fields[g] # Missing
  IN [f \in DataFields |-> IF Named(f) THEN fields[f] ELSE d[f]]

\* updateDoc settles (line 364 of p4, 374 of p5).  The payload carries every
\* field of the document that was read, the company's own fields included.
\* A payload whose accounts is undefined (neither the argument nor the
\* document read had the field) is written without it or refused, as the
\* Firestore instance is configured: both outcomes are among those of ok.
updateCompanyDataWrite(o, ok) ==
  /\ o \in InFlight("updateCompanyData", "updateDoc")
  /\ IF ~ok THEN updateCatch(o, "Failed to update company data")
     ELSE /\ docs' = [docs EXCEPT ![o.id] =
                        [exists |-> TRUE, userId |-> o.cur.userId,
                         lastAccessed |-> o.cur.lastAccessed,
                         f |-> applyUpdate(docs[o.id].f, dataToUpdate(o.cur.f, o.data))]]
          /\ subs' = TouchSubs(subs, o.id)
          /\ compSub' = TouchComp(compSub, o.cur.userId)
          /\ ops' = ops \ {o}
          /\ loading' = FALSE
          /\ last' = Returned("updateCompanyData", o.id, TRUE, FALSE)
          /\ UNCHANGED <<listVars, variant, user, companies, selectedId, companyData, isOffline, error,
                 unsubscribeCompanyData, network, effectSub, nextSub, timers, events,
                 limit>>

\* ------------------------------------------------------ updateCompanyInfo
\* lines 376-379 (p4), 386-389 (p5)
updateCompanyInfoNoCompany ==
  /\ events < limit
  /\ events' = events + 1
  /\ selectedId = NoId
  /\ error' = "No company selected"
  /\ last' = Returned("updateCompanyInfo", NoId, FALSE, FALSE)
  /\ UNCHANGED <<listVars, variant, user, docs, companies, selectedId, companyData, isOffline,
                 loading, unsubscribeCompanyData, network, subs, effectSub, nextSub,
                 compSub, timers, ops, limit>>

\* up to await updateDoc
updateCompanyInfoCall(info) ==
  /\ selectedId # NoId
  /\ events < limit
  /\ loading' = TRUE
  /\ error' = NoError
  /\ ops' = ops \cup {Op(events + 1, "updateCompanyInfo", "updateDoc", selectedId,
                         info, FALSE)}
  /\ events' = events + 1
  /\ last' = NoLast
  /\ UNCHANGED <<listVars, variant, user, docs, companies, selectedId, companyData, isOffline,
                 unsubscribeCompanyData, network, subs, effectSub, nextSub, compSub,
                 timers, limit>>

\* updateDoc settles; it fails on a document that does not exist
updateCompanyInfoWrite(o, ok) ==
  /\ o \in InFlight("updateCompanyInfo", "updateDoc")
  /\ IF ~ok \/ ~docs[o.id].exists THEN updateCatch(o, "Failed to update company info")
     ELSE /\ docs' = [docs EXCEPT ![o.id].f = applyUpdate(docs[o.id].f, o.data)]
          /\ subs' = TouchSubs(subs, o.id)
          /\ compSub' = TouchComp(compSub, docs[o.id].userId)
          /\ ops' = ops \ {o}
          /\ loading' = FALSE
          /\ last' = Returned("updateCompanyInfo", o.id, TRUE, FALSE)
          /\ UNCHANGED <<listVars, variant, user, companies, selectedId, companyData, isOffline, error,
                 unsubscribeCompanyData, network, effectSub, nextSub, timers, events,
                 limit>>

\* --------------------------------------------------------- TransactionList
\* A category rule is {id, category, patterns}; the id `rule-${Date.now()}`
\* is named by its timestamp.  The selected text and category of the
\* component are the arguments of the handler.
NoRule == 0

\* currentRules.find(rule => rule.category === selectedCategory): the index
\* of the first such rule, NoRule for undefined
findRule(rules, category) ==
  LET hits == {i \in 1..Len(rules) : rules[i].category = category}
  IN IF hits = {} THEN NoRule ELSE CHOOSE i \in hits : \A j \in hits : i <= j

\* includes that finds nothing.
includesNothing(patterns, text) == FALSE

\* existingRule.patterns.includes(selectedText)
includes(patterns, text) == \E i \in 1..Len(patterns) : patterns[i] = text

\* updatedRules with the new pattern put in front of the rule's patterns.
updatedRulesInFront(rules, category, text, now) ==
  IF findRule(rules, category) # NoRule
    THEN [i \in 1..Len(rules) |->
            IF rules[i].category = category
              THEN [rules[i] EXCEPT !.patterns = <<text>> \o @]
              ELSE rules[i]]
    ELSE <<[id |-> now, category |-> category, patterns |-> <<text>>]>> \o rules

\* part_000 lines 226-230 and 237-241
updatedRules(rules, category, text, now) ==
  IF findRule(rules, category) # NoRule
    THEN [i \in 1..Len(rules) |->
            IF rules[i].category = category
              THEN [rules[i] EXCEPT !.patterns = Append(@, text)]
              ELSE rules[i]]
    ELSE Append(rules, [id |-> now, category |-> category, patterns |-> <<text>>])

\* the argument {categoryRules: updatedRules} of updateCompanyData
RulesPayload(rules) ==
  [f \in DataFields |-> IF f = "categoryRules" THEN Arr(rules) ELSE Missing]

\* the handler returned after alert(message)
Alerted(kind, id, message) ==
  [kind |-> kind, id |-> id, rejected |-> FALSE, err |-> message, at |-> "alert",
   persisted |-> FALSE, overlap |-> FALSE]

\* part_000 lines 215-255, up to the await of updateCompanyData (whose steps
\* are those of updateCompanyData above); what follows the await changes
\* only the modal and the selection of the component.
handleAddToRules(category, text) ==
  LET currentRules == companyData["categoryRules"]
      existingRule == findRule(currentRules, category)
  IN
  IF text = "" \/ category = ""
    THEN /\ events < limit
         /\ events' = events + 1
         /\ last' = Returned("handleAddToRules", selectedId, FALSE, FALSE)
         /\ UNCHANGED <<listVars, variant, user, docs, companies, selectedId, companyData,
                        isOffline, loading, error, unsubscribeCompanyData, network,
                        subs, effectSub, nextSub, compSub, timers, ops, limit>>
  ELSE IF existingRule # NoRule /\ includes(currentRules[existingRule].patterns, text)
    THEN /\ events < limit
         /\ events' = events + 1
         /\ last' = Alerted("handleAddToRules", selectedId,
                            "This pattern already exists for the selected category")
         /\ UNCHANGED <<listVars, variant, user, docs, companies, selectedId, companyData,
                        isOffline, loading, error, unsubscribeCompanyData, network,
                        subs, effectSub, nextSub, compSub, timers, ops, limit>>
  ELSE IF selectedId = NoId
    THEN updateCompanyDataNoCompany
    ELSE updateCompanyDataCall(NoId, RulesPayload(updatedRules(currentRules, category,
                                                               text, Now)))

\* A string is the sequence of its characters.  A number is held as the
\* integer count of units of 1/Scale, which is exact for every numeral the
\* search box can hold; an amount is the number its decimal numeral denotes.
Scale == 10 ^ MaxTermLen

Digits == <<"0", "1", "2", "3", "4", "5", "6", "7", "8", "9">>
IsDigit(c) == \E d \in 1..10 : Digits[d] = c
DigitValue(c) == (CHOOSE d \in 1..10 : Digits[d] = c) - 1

\* the characters the search box is given here: parseFloat's blanks, exponent
\* and Infinity do not arise over them
TermChars == {"$", "-", ".", "1", "a", "A"}

\* String.prototype.toLowerCase over TermChars
toLowerCase(str) == [i \in 1..Len(str) |-> IF str[i] = "A" THEN "a" ELSE str[i]]

\* String.prototype.includes
stringIncludes(str, part) ==
  \E i \in 1..(Len(str) - Len(part) + 1) : SubSeq(str, i, i + Len(part) - 1) = part

\* searchTerm.startsWith('$')
startsWithDollar(str) == Len(str) >= 1 /\ str[1] = "$"

\* searchTerm.substring(1)
substring1(str) == SubSeq(str, 2, Len(str))

\* how many digits str holds from position p on
RECURSIVE digitRun(_, _)
digitRun(str, p) ==
  IF p <= Len(str) /\ IsDigit(str[p]) THEN 1 + digitRun(str, p + 1) ELSE 0

\* the number the n digits from position p on denote
RECURSIVE digitsValue(_, _, _)
digitsValue(str, p, n) ==
  IF n = 0 THEN 0 ELSE digitsValue(str, p, n - 1) * 10 + DigitValue(str[p + n - 1])

NaN == [nan |-> TRUE, scaled |-> 0]

\* parseFloat: the value of the longest prefix that is a decimal literal
\* (sign, digits, point, digits; at least one digit), NaN when there is none
parseFloat(str) ==
  LET signed == Len(str) >= 1 /\ str[1] \in {"-", "+"}
      p == IF signed THEN 2 ELSE 1
      ni == digitRun(str, p)
      point == p + ni <= Len(str) /\ str[p + ni] = "."
      nf == IF point THEN digitRun(str, p + ni + 1) ELSE 0
      magnitude == digitsValue(str, p, ni) * Scale
                     + digitsValue(str, p + ni + 1, nf) * (Scale \div (10 ^ nf))
  IN IF ni + nf = 0 THEN NaN
     ELSE [nan |-> FALSE,
           scaled |-> IF signed /\ str[1] = "-" THEN 0 - magnitude ELSE magnitude]

\* Math.abs
abs(x) == IF x < 0 THEN 0 - x ELSE x

\* part_000 lines 137-139: const transactions
transactions(all) ==
  LET Kept(tx) == tx.source # "reconciliation" /\ ~tx.isJournalEntry
  IN SelectSeq(all, Kept)

\* matchesSearch whose amount comparison keeps the sign of the amount.
matchesSearchSigned(tx, term) ==
  IF term # <<>>
    THEN IF startsWithDollar(term) /\ ~parseFloat(substring1(term)).nan
           THEN tx.amount = parseFloat(substring1(term)).scaled
           ELSE stringIncludes(toLowerCase(tx.description), toLowerCase(term))
    ELSE TRUE

\* part_000 lines 142-158: the callback of the filter
matchesSearch(tx, term) ==
  IF term # <<>>
    THEN IF startsWithDollar(term) /\ ~parseFloat(substring1(term)).nan
           THEN abs(tx.amount) = parseFloat(substring1(term)).scaled
           ELSE stringIncludes(toLowerCase(tx.description), toLowerCase(term))
    ELSE TRUE

\* part_000 lines 141-159: the value of the useMemo
filterTransactions(all, term) ==
  LET Passes(tx) == matchesSearch(tx, term)
  IN SelectSeq(transactions(all), Passes)

\* The transactions the list may be handed.
Tx(id, amount, description, source, journal) ==
  [id |-> id, amount |-> amount, description |-> description, source |-> source,
   isJournalEntry |-> journal]

TxPool ==
  { Tx("t1", Scale, <<"A", "a">>, "bank", FALSE),
    Tx("t2", 0 - Scale, <<"a", "$", "1">>, "manual", FALSE),
    Tx("t3", Scale, <<"A">>, "reconciliation", FALSE),
    Tx("t4", 11 * (Scale \div 10), <<"1", "a">>, "bank", TRUE),
    Tx("t5", 0 - 11 * (Scale \div 10), <<"-", "1", ".", "1">>, "bank", FALSE) }

TxLists == UNION {[1..n -> TxPool] : n \in 0..MaxTxLen}

\* line 267: onChange of the search box, one more character typed; the
\* component renders again
TypeChar(c) ==
  /\ Len(searchTerm) < MaxTermLen
  /\ searchTerm' = Append(searchTerm, c)
  /\ filteredTransactions' = filterTransactions(allTransactions, searchTerm')
  /\ UNCHANGED <<allTransactions, variant, user, docs, companies, selectedId,
                 companyData, isOffline, loading, error, unsubscribeCompanyData,
                 network, subs, effectSub, nextSub, compSub, timers, ops, events,
                 limit, last>>

\* line 267: onChange of the search box, the last character erased
EraseChar ==
  /\ searchTerm # <<>>
  /\ searchTerm' = SubSeq(searchTerm, 1, Len(searchTerm) - 1)
  /\ filteredTransactions' = filterTransactions(allTransactions, searchTerm')
  /\ UNCHANGED <<allTransactions, variant, user, docs, companies, selectedId,
                 companyData, isOffline, loading, error, unsubscribeCompanyData,
                 network, subs, effectSub, nextSub, compSub, timers, ops, events,
                 limit, last>>

\* ---------------------------------------------------------- specification
\* sign-in/out and connectivity
NextSession ==
  \/ SignIn
  \/ SignOut
  \/ \E ok \in BOOLEAN : handleOnline(ok)
  \/ \E ok \in BOOLEAN : handleOffline(ok)
  \/ CompaniesNotify
  \/ CompaniesError
  \/ addCompanyNoUser
  \/ \E c \in CompanyIds : addCompanyCall(c)
  \/ \E o \in ops : addCompanyStored(o)
  \/ \E o \in ops, ok \in BOOLEAN : addCompanyDone(o, ok)

\* the remote documents and their listeners
NextListen ==
  \/ \E s \in subs : DataNotify(s)
  \/ TimerFire
  \/ \E s \in subs : DataError(s)

\* the listeners, and other clients writing to the documents
NextRemote ==
  \/ \E c \in CompanyIds, f \in RemoteFields : \E v \in RemoteValues(f) : RemoteChange(c, f, v)
  \/ NextListen

NextSelect ==
  \/ selectCompanyClear4
  \/ \E c \in CompanyIds : selectCompanyCall4(c)
  \/ \E o \in ops, ok \in BOOLEAN : selectCompanyRead4(o, ok)
  \/ \E o \in ops, ok \in BOOLEAN : selectCompanyTouch4(o, ok)
  \/ \E id \in CompanyIds \cup {NoId} : selectCompanyCall5(id)
  \/ \E o \in ops, ok \in BOOLEAN : selectCompanyRead5(o, ok)
  \/ \E o \in ops, ok \in BOOLEAN : selectCompanyTouch5(o, ok)

NextUpdate ==
  \/ updateCompanyDataNoCompany
  \/ \E pid \in CompanyIds \cup {NoId}, data \in UpdatePayloads : updateCompanyDataCall(pid, data)
  \/ \E o \in ops, ok \in BOOLEAN : updateCompanyDataRead(o, ok)
  \/ \E o \in ops, ok \in BOOLEAN : updateCompanyDataWrite(o, ok)
  \/ updateCompanyInfoNoCompany
  \/ \E info \in InfoPayloads : updateCompanyInfoCall(info)
  \/ \E o \in ops, ok \in BOOLEAN : updateCompanyInfoWrite(o, ok)

\* The whole provider.
Next == NextSession \/ NextRemote \/ NextSelect \/ NextUpdate

Init == InitState /\ limit = MaxEvents /\ ListIdle

Spec == Init /\ [][Next]_vars

\* Selection and the document listeners alone, with room for three calls.
InitSelect == InitState /\ limit = MaxSelectEvents /\ ListIdle

SpecSelect == InitSelect /\ [][NextRemote \/ NextSelect]_vars

\* Documents as another client or an older version of the application may
\* have left them: some of the collections absent, or not arrays.
DocShapes ==
  LET Nested == {f \in DataFields : TopLevel(f) # f}
      Broken == {DataFields, Nested, {"accounts"}, DataFields \ {"accounts"}}
  IN {[f \in DataFields |-> IF f \in G THEN v ELSE Arr(initialCompanyData[f])] :
        G \in Broken, v \in {Missing, NonArray}}

\* The provider mounted, with document "a" of any of these shapes.
InitHydrate ==
  /\ variant \in Variants
  /\ user = NoUser
  /\ \E shape \in DocShapes :
       docs = [c \in CompanyIds |->
                 IF c = "a" THEN [newCompanyDoc(UserId, 0) EXCEPT !.f = shape] ELSE NoDoc]
  /\ companies = <<>>
  /\ selectedId = NoId
  /\ companyData = initialCompanyData
  /\ isOffline = FALSE
  /\ loading = FALSE
  /\ error = NoError
  /\ unsubscribeCompanyData = NoSub
  /\ network = TRUE
  /\ subs = {}
  /\ effectSub = NoSub
  /\ nextSub = 1
  /\ compSub = [active |-> FALSE, pending |-> FALSE]
  /\ timers = <<>>
  /\ ops = {}
  /\ events = 0
  /\ limit = MaxHydrateEvents
  /\ ListIdle
  /\ last = NoLast

\* Selection and the document listeners over documents of any shape.
SpecHydrate == InitHydrate /\ [][NextRemote \/ NextSelect]_vars

\* The provider after a sign-in and the first snapshot of the user's
\* companies.
InitSignedIn ==
  /\ variant \in Variants
  /\ user = UserId
  /\ docs = [c \in CompanyIds |-> IF c = "a" THEN newCompanyDoc(UserId, 0) ELSE NoDoc]
  /\ companies = <<"a">>
  /\ selectedId = NoId
  /\ companyData = initialCompanyData
  /\ isOffline = FALSE
  /\ loading = FALSE
  /\ error = NoError
  /\ unsubscribeCompanyData = NoSub
  /\ network = TRUE
  /\ subs = {}
  /\ effectSub = NoSub
  /\ nextSub = 1
  /\ compSub = [active |-> TRUE, pending |-> FALSE]
  /\ timers = <<>>
  /\ ops = {}
  /\ events = 0
  /\ limit = MaxSessionEvents
  /\ ListIdle
  /\ last = NoLast

\* The session, the selection and the listeners, from a signed-in user on.
SpecSignedIn == InitSignedIn /\ [][NextSession \/ NextRemote \/ NextSelect]_vars

\* An awaited remote call of some suspended operation settles.
OpStep ==
  \E o \in ops, ok \in BOOLEAN :
    \/ addCompanyStored(o) \/ addCompanyDone(o, ok)
    \/ selectCompanyRead4(o, ok) \/ selectCompanyTouch4(o, ok)
    \/ selectCompanyRead5(o, ok) \/ selectCompanyTouch5(o, ok)
    \/ updateCompanyDataRead(o, ok) \/ updateCompanyDataWrite(o, ok)
    \/ updateCompanyInfoWrite(o, ok)

\* The provider with no other client writing: awaited calls settle and an
\* open query listener gets its snapshot.
FairSpec ==
  /\ Init
  /\ [][NextSession \/ NextListen \/ NextSelect \/ NextUpdate]_vars
  /\ WF_vars(OpStep) /\ WF_vars(CompaniesNotify)

\* The transaction list's rule handler
NextRules ==
  \/ \E category \in RuleCategories, text \in RuleTexts : handleAddToRules(category, text)
  \/ \E o \in ops, ok \in BOOLEAN : updateCompanyDataRead(o, ok)
  \/ \E o \in ops, ok \in BOOLEAN : updateCompanyDataWrite(o, ok)

\* The provider mounted, with document "a" holding any of the stored rules.
InitRules ==
  /\ variant \in Variants
  /\ user = NoUser
  /\ \E rules \in StoredRules :
       docs = [c \in CompanyIds |->
                 IF c = "a"
                   THEN [newCompanyDoc(UserId, 0) EXCEPT !.f["categoryRules"] = Arr(rules)]
                   ELSE NoDoc]
  /\ companies = <<>>
  /\ selectedId = NoId
  /\ companyData = initialCompanyData
  /\ isOffline = FALSE
  /\ loading = FALSE
  /\ error = NoError
  /\ unsubscribeCompanyData = NoSub
  /\ network = TRUE
  /\ subs = {}
  /\ effectSub = NoSub
  /\ nextSub = 1
  /\ compSub = [active |-> FALSE, pending |-> FALSE]
  /\ timers = <<>>
  /\ ops = {}
  /\ events = 0
  /\ limit = MaxRuleEvents
  /\ ListIdle
  /\ last = NoLast

\* Selection, the document listeners and the rule handler, with no other
\* client writing.
SpecRules == InitRules /\ [][NextListen \/ NextSelect \/ NextRules]_vars

\* The transaction list
NextList ==
  \/ \E c \in TermChars : TypeChar(c)
  \/ EraseChar

\* The list mounted with any of the transaction lists and an empty search box.
InitList ==
  /\ InitState
  /\ limit = 0
  /\ allTransactions \in TxLists
  /\ searchTerm = <<>>
  /\ filteredTransactions = filterTransactions(allTransactions, searchTerm)

SpecList == InitList /\ [][NextList]_vars

\* ------------------------------------------------------------------ claims

\* C1 (as claimed): in every reachable state, whatever the remote document's
\* accounts field held, the local CompanyData's accounts hold exactly one
\* record with account number "00000".
C1_ExactlyOneUncategorized == CountUncategorized(companyData["accounts"]) = 1

\* C2 (as claimed): after a successful updateCompanyData that persisted, when
\* the stored document has an accounts array, that array contains the default
\* "00000" record, also when the payload carried no accounts field.
C2_StoredAccountsKeepDefault ==
  (last.kind = "updateCompanyData" /\ last.persisted
     /\ IsArray(docs[last.id].f["accounts"]))
  => hasUncategorized(docs[last.id].f["accounts"].items)

\* C3 (as claimed): a delayed callback of a listener on a company that is no
\* longer the selected one does not change the local CompanyData when its
\* timeout expires.
C3_StaleNotificationIgnored ==
  [][(timers # <<>> /\ timers' = Tail(timers) /\ Head(timers).company # selectedId)
       => companyData' = companyData]_vars

\* C4 (as claimed): at most one company-document listener is active in any
\* reachable state, and every active listener is on the selected company.
C4_AtMostOneListener ==
  /\ Cardinality(subs) <= 1
  /\ \A s \in subs : s.company = selectedId

\* C5 (as claimed): an updateCompanyData call that had a company id never
\* completes successfully without having persisted: when the document does
\* not exist the promise rejects.
C5_MissingDocumentRejects ==
  (last.kind = "updateCompanyData" /\ last.id # NoId /\ ~last.rejected)
  => last.persisted

\* C6 (as claimed): updateCompanyData with no id in the payload and no company
\* selected rejects, and writes nothing.
C6_NoActiveCompanyRejects ==
  (last.kind = "updateCompanyData" /\ last.id = NoId)
  => (last.rejected /\ ~last.persisted)

\* C7 (as claimed): when selectCompany(id), not overlapped by another
\* selectCompany call, ends with NotFound, the promise has rejected, no
\* company is selected, the local CompanyData is the default and no listener
\* is open.
C7_NotFoundLeavesNothingSelected ==
  (last.kind = "selectCompany" /\ last.err = "NotFound" /\ ~last.overlap)
  => (last.rejected /\ selectedId = NoId /\ companyData = initialCompanyData
        /\ subs = {})

\* C8 (as claimed): when selectCompany('') returns, it has not rejected, no
\* company is selected, no company-document listener is active, the local
\* CompanyData is the default and the error field is null.
C8_ClearResetsEverything ==
  (last.kind = "selectCompany" /\ last.id = NoId)
  => (~last.rejected /\ selectedId = NoId /\ subs = {}
        /\ companyData = initialCompanyData /\ error = NoError)

\* C9 (as claimed): selectCompany never rejects because the update of
\* lastAccessed failed.
C9_TouchFailureNotFatal ==
  ~(last.kind = "selectCompany" /\ last.rejected /\ last.at = "updateDoc")

\* The call that returned in this step had set the loading flag (the early
\* returns for a missing user or a missing company id never touch it).
ReturnedAfterSetLoading ==
  /\ last.kind # "none"
  /\ ~(last.kind \in {"addCompany", "updateCompanyData", "updateCompanyInfo"}
         /\ last.id = NoId)

\* An operation suspends at its first await in this step.
OperationStarts == \E o \in ops' : o.n = events + 1 /\ events' = events + 1

\* The companies effect opens the query listener in this step.
CompaniesSubscriptionOpens ==
  compSub'.active /\ compSub'.pending /\ events' = events + 1 /\ ops' = ops

\* C10 (as claimed): loading, once false, stays false until a new operation
\* (addCompany, selectCompany, updateCompanyData, updateCompanyInfo) starts.
C10_LoadingRisesOnlyWithOperation ==
  [][(~loading /\ loading') => OperationStarts]_vars

\* C10 (amended): every operation that set loading leaves it false when it
\* returns or rejects; whenever no operation is in flight loading is
\* eventually false; and loading goes from false to true only when an
\* operation starts or the companies listener is opened.
C10_LoadingIsReset ==
  /\ [](ReturnedAfterSetLoading => ~loading)
  /\ ((ops = {}) ~> ~loading)
  /\ [][(~loading /\ loading') => (OperationStarts \/ CompaniesSubscriptionOpens)]_vars

\* C10 witness: a updateCompanyData call has just rejected and loading is false.
C10_Witness ==
  last.kind = "updateCompanyData" /\ last.rejected /\ ~loading /\ ops = {}

\* ---- hydration steps
\* The document contents some listener or call may hold in this state.
DocsSeen ==
  {docs[c].f : c \in CompanyIds} \cup {timers[i].data : i \in DOMAIN timers}
    \cup {o.cur.f : o \in ops}

\* In this step a document listener's callback sets the company data from
\* the snapshot d.
NotificationApplies(d) ==
  \/ \E s \in subs : /\ docs[s.company].exists /\ ~Delayed(s)
                      /\ d = docs[s.company].f
                      /\ DataNotify(s)
  \/ timers # <<>> /\ d = Head(timers).data /\ TimerFire

\* In this step selectCompany sets the company data from what getDoc read.
FetchApplies(d) ==
  \E o \in InFlight("selectCompany", "updateDoc") :
    variant = "p4" /\ d = o.cur.f /\ selectCompanyTouch4(o, TRUE)

\* The next company data is built from d and from nothing else.
ReplacedBy(d) ==
  \A f \in DataFields :
    IF f = "accounts"
      THEN companyData'[f] \in
             (IF IsArray(d[f])
                THEN {d[f].items, <<defaultUncategorizedAccount>> \o d[f].items}
                ELSE {<<defaultUncategorizedAccount>>})
      ELSE companyData'[f] = (IF IsArray(d[f]) THEN d[f].items ELSE <<>>)

\* C11: when a document listener's notification is applied, every collection
\* of the local CompanyData afterwards comes from the incoming document alone
\* (its array, or the default for a missing one); nothing of the previous
\* local snapshot is kept or merged in.
C11_NotificationReplacesSnapshot ==
  [][\A d \in DocsSeen : NotificationApplies(d) => ReplacedBy(d)]_vars

\* C11 witness: a notification has replaced the default snapshot, the default
\* account included, by the document's own collections.
C11_Witness ==
  /\ selectedId # NoId
  /\ \E s \in subs : s.company = selectedId /\ ~s.pending
  /\ timers = <<>>
  /\ companyData["accounts"] \in {<<CashAccount>>, <<defaultUncategorizedAccount, CashAccount>>}
  /\ docs[selectedId].f["transactions"] = Missing
  /\ companyData["transactions"] = <<>>

\* C12: every collection of the local CompanyData (the payroll and
\* workManagement collections included) is a sequence in every state, and
\* when the data is set from a document, by a listener or by selectCompany,
\* each collection other than accounts that the document lacks or holds as a
\* non-array becomes the empty sequence.
C12_CollectionsAreSequences ==
  /\ [](\A f \in DataFields : DOMAIN companyData[f] = 1..Len(companyData[f]))
  /\ [][\A d \in DocsSeen :
          (NotificationApplies(d) \/ FetchApplies(d))
          => \A f \in DataFields \ {"accounts"} :
               ~IsArray(d[f]) => companyData'[f] = <<>>]_vars

\* C12 witness: the selected document holds a non-array where a collection
\* of the payroll or workManagement object should be, its snapshot has been
\* applied and the local collection is empty.
C12_Witness ==
  /\ selectedId # NoId
  /\ \E s \in subs : s.company = selectedId /\ ~s.pending
  /\ timers = <<>>
  /\ \E f \in DataFields :
       TopLevel(f) # f /\ docs[selectedId].f[f] = NonArray /\ companyData[f] = <<>>

\* ---- updateCompanyData's write
\* The value a collection named in the payload is written with: the payload's
\* array, for accounts with the default record put first when it lacked it.
PayloadValue(data, f) ==
  IF f = "accounts" /\ ~hasUncategorized(data[f].items)
    THEN Arr(<<defaultUncategorizedAccount>> \o data[f].items)
    ELSE data[f]

C14_TransportFailureRejects ==
  [][\A o \in ops :
       (\/ updateCompanyDataRead(o, FALSE)
        \/ updateCompanyDataWrite(o, FALSE)
        \/ updateCompanyInfoWrite(o, FALSE))
       => /\ last'.kind = o.kind /\ last'.rejected
          /\ error' # NoError
          /\ docs' = docs]_vars

\* C14 witness: the updateDoc of an updateCompanyData call has failed.
C14_Witness ==
  /\ last.kind = "updateCompanyData" /\ last.rejected /\ last.at = "updateDoc"
  /\ error = "Failed to update company data"

\* C15 (as claimed): addCompany called with no user signed in rejects, writes
\* nothing remotely and leaves the local companies list as it was.
C15_UnauthenticatedRejects ==
  [][addCompanyNoUser
       => (last'.rejected /\ ~last'.persisted /\ docs' = docs
             /\ companies' = companies)]_vars

\* C16: when addCompany's remote write succeeds, the remote store holds
\* under the new identifier a document owned by the user whose collections
\* are the initial default (accounts the single Uncategorized record, every
\* other collection empty), the call returns the new identifier and the
\* local list contains the new company; when the write fails the call
\* rejects and the local list and the remote store are unchanged.
C16_AddCompanyStoresDefault ==
  [][\A o \in {p \in ops : p.kind = "addCompany"} :
       /\ addCompanyStored(o)
          => /\ docs'[o.id].exists
             /\ docs'[o.id].userId = UserId
             /\ \A f \in DataFields :
                  docs'[o.id].f[f] = IF f = "accounts"
                                       THEN Arr(<<defaultUncategorizedAccount>>)
                                       ELSE Arr(<<>>)
       /\ addCompanyDone(o, TRUE)
          => /\ last'.kind = "addCompany" /\ ~last'.rejected /\ last'.id = o.id
             /\ docs'[o.id].exists
             /\ \E i \in DOMAIN companies' : companies'[i] = o.id
       /\ addCompanyDone(o, FALSE)
          => /\ last'.kind = "addCompany" /\ last'.rejected
             /\ companies' = companies
             /\ docs' = docs /\ ~docs[o.id].exists]_vars

\* C16 witness: addCompany has returned the identifier of a document it
\* created, and the local list holds it.
C16_Witness ==
  /\ last.kind = "addCompany" /\ last.persisted
  /\ docs[last.id].exists /\ docs[last.id].userId = UserId
  /\ \E i \in DOMAIN companies : companies[i] = last.id

\* C17 (as claimed): when the companies listener reports an error, the shared
\* error field holds a message, and the local companies list is kept as it
\* was if the offline flag is set and emptied otherwise.
C17_ListKeptWhenOffline ==
  [][CompaniesError
       => /\ error' # NoError
          /\ companies' = IF isOffline THEN companies ELSE <<>>]_vars

\* C18: when the user signs out, whatever the selection was (none, being
\* selected, selected), afterwards no company is selected, the local
\* companies list is empty, the local CompanyData is the default and loading
\* is false.
C18_SignOutResets ==
  [][(user # NoUser /\ user' = NoUser)
       => /\ selectedId' = NoId
          /\ companies' = <<>>
          /\ companyData' = initialCompanyData
          /\ ~loading']_vars

\* C18 witness: the user has just signed out after a company had been
\* selected (a document listener had been opened) and all is reset.
C18_Witness ==
  /\ user = NoUser /\ nextSub > 1
  /\ selectedId = NoId /\ companies = <<>>
  /\ companyData = initialCompanyData /\ ~loading /\ subs = {}

\* C19 (as claimed): an error delivered to a company-document listener, in
\* either variant and whichever code opened the listener, is recorded in the
\* shared error field.
C19_ListenerErrorRecorded ==
  [][\A s \in subs : DataError(s) => error' = "Failed to load company data"]_vars

\* C20: an offline event sets the offline flag and an online event clears it,
\* whether or not the accompanying disableNetwork / enableNetwork call
\* succeeds, and neither touches the shared error field.
C20_FlagFollowsEvent ==
  [][/\ (\E ok \in BOOLEAN : handleOffline(ok)) => (isOffline' /\ error' = error)
     /\ (\E ok \in BOOLEAN : handleOnline(ok)) => (~isOffline' /\ error' = error)]_vars

\* C20 witness: the offline flag is set although disableNetwork failed (the
\* transport is still enabled), and no error is recorded.
C20_Witness == isOffline /\ network /\ error = NoError

\* C21 (as claimed): an online-to-offline transition leaves the local
\* companies list, the selected company id and the local CompanyData
\* unchanged, whether or not disableNetwork succeeds.
C21_OfflineKeepsCachedState ==
  [][(\E ok \in BOOLEAN : handleOffline(ok))
       => /\ companies' = companies
          /\ selectedId' = selectedId
          /\ companyData' = companyData]_vars

\* Some rule of the category holds the text, letter for letter.
PatternPresent(rules, category, text) ==
  \E i \in 1..Len(rules) :
    /\ rules[i].category = category
    /\ \E j \in 1..Len(rules[i].patterns) : rules[i].patterns[j] = text

HasRule(rules, category) == \E i \in 1..Len(rules) : rules[i].category = category

RealCategories == RuleCategories \ {""}
RealTexts == RuleTexts \ {""}

\* C22: adding a pattern that the rule of the chosen category already holds
\* (the same string, case included) reports the duplicate, starts no remote
\* write and leaves the local and the remote category rules as they were.
C22_DuplicatePatternIsNoOp ==
  [][\A category \in RealCategories, text \in RealTexts :
       (/\ events' = events + 1
        /\ PatternPresent(companyData["categoryRules"], category, text)
        /\ handleAddToRules(category, text))
       => /\ last'.kind = "handleAddToRules" /\ last'.at = "alert"
          /\ last'.err = "This pattern already exists for the selected category"
          /\ ops' = ops
          /\ docs' = docs
          /\ companyData' = companyData]_vars

\* C22 witness: with a company selected, the handler has just reported a
\* duplicate pattern.
C22_Witness ==
  /\ selectedId # NoId
  /\ last.kind = "handleAddToRules" /\ last.at = "alert"
  /\ ops = {}

\* C23: adding a pattern that is new for a category with a rule hands
\* updateCompanyData the same rules with the pattern put at the end of that
\* rule's patterns, the rule's earlier patterns, its id and every other rule
\* as they were; adding a pattern for a category without a rule hands it the
\* same rules followed by one new rule of that category whose patterns are
\* the new pattern alone.  A write that succeeds stores the rules handed over.
C23_PatternAppendedOrRuleAdded ==
  [][/\ \A category \in RealCategories, text \in RealTexts :
          (/\ events' = events + 1
           /\ selectedId # NoId
           /\ ~PatternPresent(companyData["categoryRules"], category, text)
           /\ handleAddToRules(category, text))
          => \E o \in ops' \ ops :
               LET cur == companyData["categoryRules"]
                   new == o.data["categoryRules"].items
               IN /\ o.kind = "updateCompanyData" /\ o.id = selectedId
                  /\ IsArray(o.data["categoryRules"])
                  /\ \A f \in DataFields \ {"categoryRules"} : o.data[f] = Missing
                  /\ IF HasRule(cur, category)
                       THEN /\ Len(new) = Len(cur)
                            /\ \A i \in 1..Len(cur) :
                                 IF cur[i].category = category
                                   THEN /\ new[i].id = cur[i].id
                                        /\ new[i].category = category
                                        /\ Len(new[i].patterns) = Len(cur[i].patterns) + 1
                                        /\ SubSeq(new[i].patterns, 1, Len(cur[i].patterns))
                                             = cur[i].patterns
                                        /\ new[i].patterns[Len(new[i].patterns)] = text
                                   ELSE new[i] = cur[i]
                       ELSE /\ Len(new) = Len(cur) + 1
                            /\ SubSeq(new, 1, Len(cur)) = cur
                            /\ new[Len(new)].category = category
                            /\ new[Len(new)].patterns = <<text>>
     /\ \A o \in InFlight("updateCompanyData", "updateDoc") :
          (last'.persisted /\ IsArray(o.data["categoryRules"])
             /\ updateCompanyDataWrite(o, TRUE))
          => docs'[o.id].f["categoryRules"] = o.data["categoryRules"]]_vars

\* C23 witness: a write has stored rules in which a rule that had one
\* pattern holds a second one after it.
C23_Witness ==
  /\ last.kind = "updateCompanyData" /\ last.persisted
  /\ \E i \in 1..Len(docs["a"].f["categoryRules"].items) :
       LET r == docs["a"].f["categoryRules"].items[i]
       IN r.category = "Meals" /\ r.patterns = <<"Coffee", "coffee">>

\* C24 (as claimed, the part a single call decides): when a selectCompany
\* call for the company that is already selected returns, no other
\* selectCompany call having run meanwhile, and the local CompanyData held
\* the normalization of the remote document as the subscription had last
\* delivered it, the local CompanyData still holds the normalization of the
\* remote document.
C24_ReselectKeepsLatestSnapshot ==
  [][\A o \in InFlight("selectCompany", "updateDoc") :
       (/\ selectCompanyTouch4(o, TRUE) \/ selectCompanyTouch5(o, TRUE)
        /\ o.id = selectedId /\ ~o.overlap
        /\ companyData \in {normalizePlain(docs[o.id].f), normalizeRepaired(docs[o.id].f)})
       => companyData' \in {normalizePlain(docs'[o.id].f),
                            normalizeRepaired(docs'[o.id].f)}]_vars

\* C25 (as claimed): when the successful write of one updateCompanyData call
\* is directly followed by the write of another call for the same company,
\* whichever of the two read the document first, the second write leaves
\* every field its call did not name as the first write left it
\* (bankAccounts, which every call writes, apart).
C25_InterleavedUpdatesBothKept ==
  [][\A o \in InFlight("updateCompanyData", "updateDoc") :
       (/\ updateCompanyDataWrite(o, TRUE)
        /\ last.kind = "updateCompanyData" /\ last.persisted /\ last.id = o.id)
       => \A f \in DataFields \ {"bankAccounts"} :
            o.data[f] = Missing => docs'[o.id].f[f] = docs[o.id].f[f]]_vars

\* C26 (as claimed): in every reachable state the local companies list holds
\* at most one entry per company identifier.
C26_CompaniesListHasNoDuplicates ==
  \A i, j \in DOMAIN companies : companies[i] = companies[j] => i = j

\* C27 (as claimed): in every reachable state where no user is signed in and
\* no operation is in flight (no call awaits a remote call, no listener
\* callback waits in its timeout), no company is selected and the local
\* CompanyData is the default.
C27_SignedOutMeansNothingSelected ==
  (user = NoUser /\ ops = {} /\ timers = <<>>)
    => (selectedId = NoId /\ companyData = initialCompanyData)

\* C28 (as claimed, for the case it names): the first and only
\* selectCompany(id) call of a behaviour (its number and the count of calls
\* and events are both 1), overtaken while it was suspended by a
\* selectCompany('') (the only call that can have marked it as overlapped),
\* leaves nothing selected and the default CompanyData when it finishes: the
\* most recently invoked call asked for no selection.
C28_LastInvokedSelectionWins ==
  [][\A o \in SelectsInFlight :
       (/\ ops' = ops \ {o}
        /\ o.n = 1 /\ events = 1 /\ o.overlap)
       => (selectedId' = NoId /\ companyData' = initialCompanyData)]_vars

\* C29 (as claimed, for the case it names): when one of several operations
\* that await a remote call finishes, returning or rejecting, and another is
\* still awaiting, the loading flag is true afterwards.
C29_LoadingWhileAnyOperationAwaits ==
  [][((\E o \in ops : ops' = ops \ {o}) /\ ops' # {}) => loading']_vars

\* A decimal numeral: an optional sign, then digits with at most one point
\* among them and at least one digit.
Numeral(str) ==
  LET body == IF Len(str) >= 1 /\ str[1] \in {"-", "+"} THEN SubSeq(str, 2, Len(str))
              ELSE str
  IN /\ \A i \in 1..Len(body) : IsDigit(body[i]) \/ body[i] = "."
     /\ Cardinality({i \in 1..Len(body) : body[i] = "."}) <= 1
     /\ \E i \in 1..Len(body) : IsDigit(body[i])

RECURSIVE SumOver(_, _)
SumOver(f, n) == IF n = 0 THEN 0 ELSE f[n] + SumOver(f, n - 1)

\* The number a decimal numeral denotes, in units of 1/Scale: every digit
\* counts with the weight of its place.
Denotes(str) ==
  LET negative == str[1] = "-"
      body == IF str[1] \in {"-", "+"} THEN SubSeq(str, 2, Len(str)) ELSE str
      points == {i \in 1..Len(body) : body[i] = "."}
      point == IF points = {} THEN Len(body) + 1 ELSE CHOOSE i \in points : TRUE
      weight == [i \in 1..Len(body) |->
                   IF i < point THEN DigitValue(body[i]) * Scale * (10 ^ (point - 1 - i))
                   ELSE IF i > point THEN DigitValue(body[i]) * (Scale \div (10 ^ (i - point)))
                   ELSE 0]
      total == SumOver(weight, Len(body))
  IN IF negative THEN 0 - total ELSE total

\* The text begins with a decimal numeral: it can be parsed as a number, the
\* one its longest such beginning denotes.
Parseable(text) == \E n \in 1..Len(text) : Numeral(SubSeq(text, 1, n))

ParsedNumber(text) ==
  LET n == CHOOSE m \in 1..Len(text) :
             /\ Numeral(SubSeq(text, 1, m))
             /\ \A k \in (m + 1)..Len(text) : ~Numeral(SubSeq(text, 1, k))
  IN Denotes(SubSeq(text, 1, n))

\* x and y are the same letter, in whichever case
SameLetter(x, y) == x = y \/ {x, y} = {"a", "A"}

ContainsIgnoringCase(description, term) ==
  \E i \in 1..(Len(description) - Len(term) + 1) :
    \A k \in 1..Len(term) : SameLetter(description[i + k - 1], term[k])

\* The transaction is to be shown under the search term.
ToBeShown(tx, term) ==
  /\ tx.source # "reconciliation"
  /\ ~tx.isJournalEntry
  /\ IF term = <<>> THEN TRUE
     ELSE IF term[1] = "$" /\ Parseable(SubSeq(term, 2, Len(term)))
       THEN (tx.amount = ParsedNumber(SubSeq(term, 2, Len(term)))
               \/ 0 - tx.amount = ParsedNumber(SubSeq(term, 2, Len(term))))
            /\ ParsedNumber(SubSeq(term, 2, Len(term))) >= 0
       ELSE ContainsIgnoringCase(tx.description, term)

\* C30: the rows of the transaction list are exactly the transactions handed
\* to it that are neither reconciliation-sourced nor journal entries and that
\* pass the search (an empty term: all; '$' followed by text that begins
\* with a decimal numeral: those whose absolute amount is the number; any
\* other term, '$' followed by other text included: those whose description
\* contains the term, case ignored), each as often and in the order in which
\* it was handed over.
C30_ListShowsExactlyTheMatches ==
  LET kept == {j \in 1..Len(allTransactions) : ToBeShown(allTransactions[j], searchTerm)}
      Nth(i) == CHOOSE j \in kept : Cardinality({k \in kept : k <= j}) = i
  IN /\ Len(filteredTransactions) = Cardinality(kept)
     /\ \A i \in 1..Len(filteredTransactions) :
          filteredTransactions[i] = allTransactions[Nth(i)]

\* C30 witness: the term "$1" shows the transaction of amount -1 and the one
\* of amount 1, in the order handed over, out of a list that held them.
C30_Witness ==
  /\ searchTerm = <<"$", "1">>
  /\ Len(filteredTransactions) = 2
  /\ filteredTransactions[1].id = "t2" /\ filteredTransactions[1].amount < 0
  /\ filteredTransactions[2].id = "t1"

====
